---- MODULE Spec2Model ----
(***************************************************************************)
(* Model of extact.py: the Reftab extraction command.                      *)
(*   main            reads the environment, checks the configuration,     *)
(*                   runs one fetcher, writes the CSV and prints one line  *)
(*   get_paginated   the offset pager with its retry on status >= 500     *)
(*   write_csv       the flat-file writer                                  *)
(* The server, the file system and the process environment are the        *)
(* nondeterministic inputs.                                                *)
(***************************************************************************)
EXTENDS Integers, Sequences, FiniteSets, TLC

VARIABLES
    env,        \* process environment: REFTAB_BASE_URL, keys, REFTAB_HEADERS
    args,       \* the command line as parse_args returns it
    pc,         \* position of the single control thread
    headers,    \* result of build_headers()
    params,     \* the fetcher's params mapping, passed to get_paginated
    dataset,    \* the record list the server holds
    offset,     \* get_paginated: offset
    out,        \* get_paginated: out (accumulated records)
    reqs,       \* history: every GET issued, in order
    resps,      \* history: every answer received, in order
    sleeps,     \* history: every time.sleep call, in order
    lastBody,   \* the JSON body of the last successful response
    rows,       \* main: rows (the value returned by the fetcher)
    file,       \* the file at the --out path
    stdout,     \* lines printed to standard output
    exit,       \* process exit code, NoExit while running
    traceback   \* TRUE when an exception left main uncaught

vars == <<env, args, pc, headers, params, dataset, offset, out, reqs, resps, sleeps, lastBody,
          rows, file, stdout, exit, traceback>>

----------------------------------------------------------------------------
(* Bounds of the model *)

MaxReq == 3         \* requests explored per run
MaxBatch == 2       \* longest batch a response carries
MaxLimit == 2       \* largest --limit
MaxData == 4        \* most records the slice server holds
MaxRetry == 2       \* most 5xx answers of the slice server in a run

----------------------------------------------------------------------------
(* Values *)

None == "<None>"                    \* Python None
NoExit == -1                        \* the process is still running
NoCode == -1                        \* no status code in an error message
NoStatus == 0                       \* no response was received

Last(s) == s[Len(s)]

\* Python truth value of a string or None
Truthy(s) == s # None /\ s # ""

\* Records are identified by the position the server gives them in a page.
\* The server may serve the same records again on a later page.
Page(n) == [i \in 1..n |-> i]
Batches == {Page(n) : n \in 0..MaxBatch}

\* JSON bodies a response can carry.  t: "null", "list", "dict", "scalar"
\* (a non-zero number) or "invalid" (not JSON).  For a dict: has = it has a
\* `results` key, other = it has other keys, rt = the type of the value of
\* `results` ("null", "list" or "num"), items = that value when a list.
Body(t, items, has, other, rt) ==
    [t |-> t, items |-> items, has |-> has, other |-> other, rt |-> rt]
NullBody == Body("null", <<>>, FALSE, FALSE, "null")
ListBody(b) == Body("list", b, FALSE, FALSE, "null")
EmptyDict == Body("dict", <<>>, FALSE, FALSE, "null")
OtherDict == Body("dict", <<>>, FALSE, TRUE, "null")
ResultsNull == Body("dict", <<>>, TRUE, FALSE, "null")
ResultsNum == Body("dict", <<>>, TRUE, FALSE, "num")
ResultsBody(b) == Body("dict", b, TRUE, FALSE, "list")
ScalarBody == Body("scalar", <<>>, FALSE, FALSE, "null")
InvalidBody == Body("invalid", <<>>, FALSE, FALSE, "null")

Bodies ==
    {NullBody, EmptyDict, OtherDict, ResultsNull, ResultsNum, ScalarBody, InvalidBody}
    \cup {ListBody(b) : b \in Batches} \cup {ResultsBody(b) : b \in Batches}

\* HTTP statuses the server answers with
Statuses == {200, 401, 404, 500, 503}

----------------------------------------------------------------------------
(* build_headers *)

PK == "X-Public-Key"
SK == "X-Secret-Key"

NoHeaders == [k \in {} |-> ""]
ExtraUnset == [t |-> "unset", obj |-> NoHeaders]
ExtraInvalid == [t |-> "invalid", obj |-> NoHeaders]        \* json.loads raises
ExtraObject(o) == [t |-> "object", obj |-> o]

ExtraSpace ==
    {ExtraUnset, ExtraInvalid,
     ExtraObject([k \in {"X-Extra"} |-> "e"]),
     ExtraObject([k \in {PK} |-> ""]),
     ExtraObject([k \in {PK} |-> "p2"])}

build_headers_required(e) ==
    LET base == [k \in {PK, SK} |->
                    IF k = PK THEN e.public_key ELSE e.secret_key]
    IN  IF e.extra.t = "object" THEN base @@ e.extra.obj ELSE base

build_headers(e) ==
    LET base == [k \in {PK, SK} |->
                    IF k = PK THEN e.public_key ELSE e.secret_key]
    IN  IF e.extra.t = "object" THEN e.extra.obj @@ base ELSE base

\* dict.get
Get(h, k) == IF k \in DOMAIN h THEN h[k] ELSE None

----------------------------------------------------------------------------
(* join_url: strings are sequences of tokens, "/" is the slash *)

RECURSIVE rstrip(_)
rstrip(s) ==
    IF s # <<>> /\ s[Len(s)] = "/" THEN rstrip(SubSeq(s, 1, Len(s) - 1)) ELSE s

RECURSIVE lstrip(_)
lstrip(s) ==
    IF s # <<>> /\ s[1] = "/" THEN lstrip(Tail(s)) ELSE s

join_url_nostrip(base, path) == base \o <<"/">> \o path
join_url(base, path) == rstrip(base) \o <<"/">> \o lstrip(path)

----------------------------------------------------------------------------
(* get_paginated: the tests of the loop *)

\* resp.status_code >= 500
IsServerError_gt(status) == status > 500
IsServerError(status) == status >= 500

\* resp.raise_for_status() raises HTTPError
RaisesForStatus(status) == 400 <= status /\ status < 600

\* neither `if not batch: break` nor `if len(batch) < limit: break`
Continue_le(batch, limit) == batch # <<>> /\ ~(Len(batch) <= limit)
Continue_pos(batch, limit) ==
    batch # <<>> /\ limit > 0 /\ ~(Len(batch) < limit)
Continue_noempty(batch, limit) == ~(Len(batch) < limit)
Continue(batch, limit) == batch # <<>> /\ ~(Len(batch) < limit)

\* out.extend(batch)
Extend_dedup(o, batch) ==
    LET New(r) == \A i \in 1..Len(o) : o[i] # r
    IN  o \o SelectSeq(batch, New)
Extend(o, batch) == o \o batch

\* `if sleep_s > 0: time.sleep(sleep_s)`, reached when the loop goes on
SleepsAfterPage_always(more, sleep_s) == sleep_s > 0
SleepsAfterPage(more, sleep_s) == more /\ sleep_s > 0

\* offset += limit
NextOffset_one(off, limit) == off + 1
NextOffset(off, limit) == off + limit

\* resp.json() or []
JsonTruthy(b) ==
    CASE b.t = "null" -> FALSE
      [] b.t = "list" -> b.items # <<>>
      [] b.t = "dict" -> b.has \/ b.other
      [] OTHER -> TRUE

ExtractBatch_listonly(body) ==
    [iter |-> TRUE, items |-> IF body.t = "list" THEN body.items ELSE <<>>]

\* The batch of a body: iter = FALSE when it is a value that cannot be iterated
\* (out.extend raises TypeError), items = its records otherwise.
ExtractBatch(body) ==
    LET data == IF JsonTruthy(body) THEN body ELSE ListBody(<<>>)
    IN  IF data.t = "dict" /\ data.has
        THEN IF data.rt = "num"
             THEN [iter |-> FALSE, items |-> <<>>]
             ELSE [iter |-> TRUE, items |-> data.items]
        ELSE [iter |-> TRUE,
              items |-> IF data.t = "list" THEN data.items ELSE <<>>]

----------------------------------------------------------------------------
(* write_csv.  Field names are numbered in their sorted order:               *)
(* 1 = "a", 2 = "b", 3 = "tags".                                            *)

KeysOf(r) == CASE r = 1 -> {1} [] r = 2 -> {2} [] OTHER -> {1, 3}
Nested(r, k) == k = 3               \* the value of "tags" is a list

RECURSIVE sorted_desc(_)
sorted_desc(S) ==
    IF S = {} THEN <<>>
    ELSE LET m == CHOOSE x \in S : \A y \in S : x >= y
         IN  <<m>> \o sorted_desc(S \ {m})

RECURSIVE sorted(_)
sorted(S) ==
    IF S = {} THEN <<>>
    ELSE LET m == CHOOSE x \in S : \A y \in S : x <= y
         IN  <<m>> \o sorted(S \ {m})

Cell(r, k) ==
    IF k \notin KeysOf(r) THEN [t |-> "blank", of |-> 0]
    ELSE IF Nested(r, k) THEN [t |-> "json", of |-> r]
    ELSE [t |-> "value", of |-> r]

Untouched == [state |-> "untouched", header |-> <<>>, lines |-> <<>>]

write_csv(rs) ==
    IF rs = <<>>
    THEN [state |-> "written", header |-> <<>>, lines |-> <<>>]
    ELSE LET keys == sorted(UNION {KeysOf(rs[i]) : i \in 1..Len(rs)})
         IN  [state |-> "written",
              header |-> keys,
              lines |-> [i \in 1..Len(rs) |->
                            [j \in 1..Len(keys) |-> Cell(rs[i], keys[j])]]]

----------------------------------------------------------------------------
(* The lines main prints *)

Line(kind, error, code, resource, count, o, rs) ==
    [kind |-> kind, error |-> error, code |-> code, resource |-> resource,
     count |-> count, out |-> o, rows |-> rs]

ErrorLine(msg, code) == Line("error", msg, code, "", 0, "", <<>>)
SummaryLine(resource, count, o) == Line("summary", "", NoCode, resource, count, o, <<>>)
RowsLine(rs) == Line("rows", "", NoCode, "", 0, "", rs)

\* requests.Response.__bool__ is Response.ok: FALSE for a status that
\* raise_for_status raises on.
ResponseBool(status) == status < 400

\* f"HTTP {e.response.status_code if e.response else ''}"
HttpErrorLine(status) ==
    ErrorLine("HTTP ", IF ResponseBool(status) THEN status ELSE NoCode)

----------------------------------------------------------------------------
(* Inputs *)

BaseUrls == {<<>>, <<"h">>, <<"h", "/", "/">>}

EnvSpace ==
    [base_url : BaseUrls, public_key : {"", "p"}, secret_key : {"", "s"},
     extra : ExtraSpace]

ArgSpace ==
    [resource : {"assets", "locations"}, query : {None, "", "x"},
     limit : 0..MaxLimit, sleep : {0, 1}, out : {None, "o.csv"},
     stdout : BOOLEAN]

\* The whole program is explored over every environment and every output
\* flag, with the page sizes 1 and MaxLimit and a positive --sleep.
MainArgs == {a \in ArgSpace : a.limit \in {1, MaxLimit} /\ a.sleep = 1}

\* The pager is explored over every --limit, --sleep, --resource, --query and
\* base URL, with the keys of a plain environment and the summary output.
PagerEnvs == {e \in EnvSpace : e.extra = ExtraUnset /\ e.public_key = "p"}
PagerArgs == {a \in ArgSpace : ~a.stdout}

\* The state at the entry of main
Start(E, A, D) ==
    /\ env \in E
    /\ args \in A
    /\ dataset \in D
    /\ pc = "start"
    /\ headers = NoHeaders
    /\ params = NoHeaders
    /\ offset = 0
    /\ out = <<>>
    /\ reqs = <<>>
    /\ resps = <<>>
    /\ sleeps = <<>>
    /\ lastBody = NullBody
    /\ rows = <<>>
    /\ file = Untouched
    /\ stdout = <<>>
    /\ exit = NoExit
    /\ traceback = FALSE

\* In Init and InitPager the server answers anything (no record list).
Init == Start(EnvSpace, MainArgs, {<<>>})

InitPager == Start(PagerEnvs, PagerArgs, {<<>>})

\* A server that holds the records 1..N and serves slices of them, asked
\* with a positive --limit by a run with a plain configuration.
SliceEnvs == {e \in PagerEnvs : e.base_url = <<"h">> /\ e.secret_key = "s"}
SliceArgs == {a \in PagerArgs : /\ a.limit >= 1 /\ a.out = None
                                /\ a.query = None /\ a.resource = "assets"}

InitSlice == Start(SliceEnvs, SliceArgs, {Page(n) : n \in 0..MaxData})

----------------------------------------------------------------------------
(* fetch_assets / fetch_locations *)

Path(resource) == IF resource = "assets" THEN <<"assets">> ELSE <<"locations">>

\* params = {}; if query: params["q"] = query
Params(query) == IF Truthy(query) THEN [k \in {"q"} |-> query] ELSE NoHeaders

----------------------------------------------------------------------------
(* main, up to the call of the fetcher *)

ExitConfig == 1         \* sys.exit(1)
ExitFetch_one == ExitConfig
ExitFetch == 2          \* sys.exit(2)
ExitOk == 0             \* main returns
ExitUncaught == 1       \* the interpreter's exit code for an uncaught exception

\* not headers.get("X-Public-Key") or not headers.get("X-Secret-Key")
MissingKeys_both(h) == ~Truthy(Get(h, PK)) /\ ~Truthy(Get(h, SK))
MissingKeys(h) == ~Truthy(Get(h, PK)) \/ ~Truthy(Get(h, SK))

\* print(json.dumps(...)); sys.exit(code)
PrintAndExit(line, code) ==
    /\ stdout' = Append(stdout, line)
    /\ exit' = code
    /\ pc' = "done"

MainMissingBaseUrl ==
    /\ pc = "start"
    /\ env.base_url = <<>>
    /\ PrintAndExit(ErrorLine("Missing REFTAB_BASE_URL", NoCode), ExitConfig)
    /\ UNCHANGED <<env, args, params, dataset, headers, offset, out, reqs, resps, sleeps,
                   lastBody, rows, file, traceback>>

MainMissingKeys ==
    /\ pc = "start"
    /\ env.base_url # <<>>
    /\ headers' = build_headers(env)
    /\ MissingKeys(headers')
    /\ PrintAndExit(
         ErrorLine("Missing REFTAB_PUBLIC_KEY or REFTAB_SECRET_KEY", NoCode),
         ExitConfig)
    /\ UNCHANGED <<env, args, params, dataset, offset, out, reqs, resps, sleeps,
                   lastBody, rows, file, traceback>>

\* parse_args, build_session, and the entry of fetch_assets / fetch_locations
\* into get_paginated: out = [], offset = 0
MainStartFetch ==
    /\ pc = "start"
    /\ env.base_url # <<>>
    /\ headers' = build_headers(env)
    /\ ~MissingKeys(headers')
    /\ params' = Params(args.query)
    /\ out' = <<>>
    /\ offset' = 0
    /\ pc' = "fetch"
    /\ UNCHANGED <<env, args, dataset, reqs, resps, sleeps, lastBody, rows, file,
                   stdout, exit, traceback>>

----------------------------------------------------------------------------
(* get_paginated *)

\* qp = dict(params) with limit and offset added
Request ==
    [url |-> join_url(env.base_url, Path(args.resource)),
     q |-> Get(params, "q"),
     limit |-> args.limit,
     offset |-> offset,
     headers |-> headers]

Resp(status, kind, batch) == [status |-> status, kind |-> kind, batch |-> batch]

\* session.get(url, params=qp, headers=headers, timeout=60) is sent
Send ==
    /\ pc = "fetch"
    /\ reqs' = Append(reqs, Request)
    /\ pc' = "wait"
    /\ UNCHANGED <<env, args, params, dataset, headers, offset, out, resps, sleeps, lastBody,
                   rows, file, stdout, exit, traceback>>

\* the model follows a run for MaxReq requests
SendRequest == Len(reqs) < MaxReq /\ Send

\* status >= 500: time.sleep(sleep_s); continue
Receive5xx ==
    /\ pc = "wait"
    /\ \E status \in Statuses :
          /\ IsServerError(status)
          /\ resps' = Append(resps, Resp(status, "retry", <<>>))
    /\ sleeps' = Append(sleeps, [after |-> Len(reqs), kind |-> "retry",
                                 dur |-> args.sleep])
    /\ pc' = "fetch"
    /\ UNCHANGED <<env, args, params, dataset, headers, offset, out, reqs, lastBody, rows,
                   file, stdout, exit, traceback>>

\* raise_for_status raises HTTPError, caught by main's first handler
ReceiveHttpError_partial ==
    /\ pc = "wait"
    /\ \E status \in Statuses :
          /\ ~IsServerError(status) /\ RaisesForStatus(status)
          /\ resps' = Append(resps, Resp(status, "http_error", <<>>))
    /\ rows' = out
    /\ pc' = IF Truthy(args.out) THEN "write" ELSE "print"
    /\ UNCHANGED <<env, args, params, dataset, headers, offset, out, reqs, sleeps, lastBody,
                   file, stdout, exit, traceback>>

ReceiveHttpError ==
    /\ pc = "wait"
    /\ \E status \in Statuses :
          /\ ~IsServerError(status) /\ RaisesForStatus(status)
          /\ resps' = Append(resps, Resp(status, "http_error", <<>>))
          /\ PrintAndExit(HttpErrorLine(status), ExitFetch)
    /\ UNCHANGED <<env, args, params, dataset, headers, offset, out, reqs, sleeps, lastBody,
                   rows, file, traceback>>

\* session.get raises (connection failure, timeout): main's second handler
TransportError ==
    /\ pc = "wait"
    /\ resps' = Append(resps, Resp(NoStatus, "transport", <<>>))
    /\ PrintAndExit(ErrorLine("ConnectionError", NoCode), ExitFetch)
    /\ UNCHANGED <<env, args, params, dataset, headers, offset, out, reqs, sleeps, lastBody,
                   rows, file, traceback>>

\* resp.json() raises, or out.extend raises on a `results` that is no
\* sequence: main's second handler
ReceiveBadBody ==
    /\ pc = "wait"
    /\ \E status \in Statuses, body \in Bodies :
          /\ ~IsServerError(status) /\ ~RaisesForStatus(status)
          /\ body.t = "invalid" \/ ~ExtractBatch(body).iter
          /\ resps' = Append(resps, Resp(status, "bad_body", <<>>))
          /\ lastBody' = body
          /\ PrintAndExit(
               ErrorLine(IF body.t = "invalid" THEN "JSONDecodeError"
                         ELSE "TypeError", NoCode), ExitFetch)
    /\ UNCHANGED <<env, args, params, dataset, headers, offset, out, reqs, sleeps, rows, file,
                   traceback>>

\* where main continues after the fetcher returned: `if args.out:`
AfterFetch_skip == "print"
AfterFetch == IF Truthy(args.out) THEN "write" ELSE "print"

\* a successful response: lines 43-55, and `return out` after a break
ProcessPage(status, body) ==
    LET batch == ExtractBatch(body).items
        more == Continue(batch, args.limit)
    IN  /\ ~IsServerError(status) /\ ~RaisesForStatus(status)
        /\ body.t # "invalid" /\ ExtractBatch(body).iter
        /\ resps' = Append(resps, Resp(status, "page", batch))
        /\ lastBody' = body
        /\ out' = Extend(out, batch)
        /\ offset' = IF more THEN NextOffset(offset, args.limit) ELSE offset
        /\ sleeps' = IF SleepsAfterPage(more, args.sleep)
                     THEN Append(sleeps, [after |-> Len(reqs),
                                          kind |-> "page",
                                          dur |-> args.sleep])
                     ELSE sleeps
        /\ rows' = IF more THEN rows ELSE out'
        /\ pc' = IF more THEN "fetch" ELSE AfterFetch

ReceivePage ==
    /\ pc = "wait"
    /\ \E status \in Statuses, body \in Bodies : ProcessPage(status, body)
    /\ UNCHANGED <<env, args, params, dataset, headers, reqs, file, stdout, exit, traceback>>

----------------------------------------------------------------------------
(* main, after the fetcher returned *)

\* write_csv(rows, args.out)
WriteCsv ==
    /\ pc = "write"
    /\ file' = write_csv(rows)
    /\ pc' = "print"
    /\ UNCHANGED <<env, args, params, dataset, headers, offset, out, reqs, resps, sleeps,
                   lastBody, rows, stdout, exit, traceback>>

\* open(path, "w") raises OSError: the call is outside main's try, the
\* exception leaves main, the interpreter prints the stack trace and exits 1
WriteCsvFails ==
    /\ pc = "write"
    /\ traceback' = TRUE
    /\ exit' = ExitUncaught
    /\ pc' = "done"
    /\ UNCHANGED <<env, args, params, dataset, headers, offset, out, reqs, resps, sleeps,
                   lastBody, rows, file, stdout>>

\* lines 116-119, then main returns
PrintResult ==
    /\ pc = "print"
    /\ PrintAndExit(
         IF args.stdout THEN RowsLine(rows)
         ELSE SummaryLine(args.resource, Len(rows),
                          IF Truthy(args.out) THEN args.out ELSE ""), ExitOk)
    /\ UNCHANGED <<env, args, params, dataset, headers, offset, out, reqs, resps, sleeps,
                   lastBody, rows, file, traceback>>

----------------------------------------------------------------------------

Next ==
    \/ MainMissingBaseUrl
    \/ MainMissingKeys
    \/ MainStartFetch
    \/ SendRequest
    \/ Receive5xx
    \/ ReceiveHttpError
    \/ TransportError
    \/ ReceiveBadBody
    \/ ReceivePage
    \/ WriteCsv
    \/ WriteCsvFails
    \/ PrintResult

Spec == Init /\ [][Next]_vars

SpecPager == InitPager /\ [][Next]_vars

----------------------------------------------------------------------------
(* The slice server: it answers a request with records [offset,             *)
(* offset+limit) of its list as a JSON array, or, at most MaxRetry times in *)
(* a run, with a 5xx status.                                                *)

Slice(d, off, lim) ==
    SubSeq(d, off + 1, IF off + lim < Len(d) THEN off + lim ELSE Len(d))

Retries == Cardinality({i \in 1..Len(resps) : resps[i].kind = "retry"})

SlicePage ==
    /\ pc = "wait"
    /\ ProcessPage(200, ListBody(Slice(dataset, Last(reqs).offset,
                                       Last(reqs).limit)))
    /\ UNCHANGED <<env, args, params, dataset, headers, reqs, file, stdout,
                   exit, traceback>>

Slice5xx == Retries < MaxRetry /\ Receive5xx

NextSlice ==
    \/ MainStartFetch
    \/ Send
    \/ Slice5xx
    \/ SlicePage
    \/ PrintResult

\* The process takes its next step and the server answers every request.
SpecSlice == InitSlice /\ [][NextSlice]_vars /\ WF_vars(NextSlice)

----------------------------------------------------------------------------
(* Vocabulary of the properties *)

Offsets == [i \in 1..Len(reqs) |-> reqs[i].offset]

\* the fetcher returned to main
FetchReturned ==
    /\ resps # <<>> /\ Last(resps).kind = "page"
    /\ pc \in {"write", "print", "done"}

\* the fetcher raised into main's handlers
FetchFailed ==
    resps # <<>> /\ Last(resps).kind \in {"http_error", "transport", "bad_body"}

\* get_paginated is running
InLoop == pc \in {"fetch", "wait"}

RECURSIVE ConcatBatches(_)
ConcatBatches(rs) ==
    IF rs = <<>> THEN <<>> ELSE rs[1].batch \o ConcatBatches(Tail(rs))

IsPage(r) == r.kind = "page"

----------------------------------------------------------------------------
(* C1: for limit >= 1 and k < limit, when the answers are pages of sizes    *)
(* limit, limit, k, get_paginated issues exactly the three requests at      *)
(* offsets 0, limit, 2*limit and returns the 2*limit+k records of page 1,   *)
(* page 2, page 3 in that order.                                            *)

C1_Case ==
    /\ args.limit >= 1
    /\ Len(resps) >= 3
    /\ \A i \in 1..3 : IsPage(resps[i])
    /\ Len(resps[1].batch) = args.limit
    /\ Len(resps[2].batch) = args.limit
    /\ Len(resps[3].batch) < args.limit

C1_ThreePages ==
    C1_Case =>
        /\ Len(resps) = 3
        /\ Offsets = <<0, args.limit, 2 * args.limit>>
        /\ FetchReturned
        /\ rows = resps[1].batch \o resps[2].batch \o resps[3].batch
        /\ Len(rows) = 2 * args.limit + Len(resps[3].batch)

C1_Witness ==
    C1_Case /\ pc = "done" /\ args.limit = 2 /\ Len(resps[3].batch) = 1

----------------------------------------------------------------------------
(* C2: a response with status >= 500 is not raised and not reported, leaves  *)
(* offset and the accumulated list as they are, and is followed by a request *)
(* at the same offset; the list and the offset are those of the run without  *)
(* the 5xx responses.                                                        *)

FullPages == {i \in 1..Len(resps) :
                IsPage(resps[i]) /\ resps[i].batch # <<>>
                /\ Len(resps[i].batch) >= args.limit}

C2_RetrySameOffset ==
    /\ \A i \in 1..Len(resps) : resps[i].status >= 500 =>
          /\ resps[i].kind = "retry"
          /\ (i < Len(reqs) => reqs[i + 1].offset = reqs[i].offset)
          /\ (i = Len(resps) =>
                /\ InLoop /\ exit = NoExit /\ stdout = <<>> /\ ~traceback
                /\ offset = reqs[i].offset)
    /\ pc # "start" =>
          /\ out = ConcatBatches(SelectSeq(resps, IsPage))
          /\ offset = args.limit * Cardinality(FullPages)

C2_Witness ==
    /\ Len(resps) = 3
    /\ resps[1].status = 500 /\ resps[2].status = 503
    /\ IsPage(resps[3]) /\ resps[3].batch # <<>>
    /\ rows = resps[3].batch
    /\ pc = "done" /\ exit = 0

----------------------------------------------------------------------------
(* C3: for limit >= 1, a page of exactly limit records is followed by a      *)
(* request at the offset advanced by limit; when that next page is empty the *)
(* pager returns the records accumulated before it, so m full pages and an   *)
(* empty one cost m+1 requests and give m*limit records.                     *)

C3_FullThenEmpty(m) ==
    /\ Len(resps) = m + 1
    /\ \A i \in 1..m : IsPage(resps[i]) /\ Len(resps[i].batch) = args.limit
    /\ IsPage(resps[m + 1]) /\ resps[m + 1].batch = <<>>

C3_FullPageFetchesAgain ==
    args.limit >= 1 =>
        /\ \A i \in 1..Len(resps) :
              (IsPage(resps[i]) /\ Len(resps[i].batch) = args.limit) =>
                  /\ (i = Len(resps) =>
                        InLoop /\ offset = reqs[i].offset + args.limit)
                  /\ (i < Len(reqs) =>
                        reqs[i + 1].offset = reqs[i].offset + args.limit)
        /\ \A m \in 1..MaxReq : C3_FullThenEmpty(m) =>
              /\ FetchReturned
              /\ Len(reqs) = m + 1
              /\ rows = ConcatBatches(SubSeq(resps, 1, m))
              /\ Len(rows) = m * args.limit

C3_Witness ==
    /\ args.limit = 2 /\ C3_FullThenEmpty(2) /\ pc = "done"
    /\ Len(rows) = 4

----------------------------------------------------------------------------
(* C4: when the first page is empty (empty array, null or empty body, a      *)
(* mapping without `results`, a mapping whose `results` is empty or null),   *)
(* get_paginated returns the empty list after exactly one request.           *)

EmptyPageBodies ==
    {ListBody(<<>>), NullBody, EmptyDict, OtherDict, ResultsBody(<<>>), ResultsNull}

C4_FirstPageEmpty ==
    /\ (/\ Len(resps) = 1
        /\ resps[1].status \in Statuses /\ resps[1].status < 400
        /\ lastBody \in EmptyPageBodies)
       => IsPage(resps[1]) /\ resps[1].batch = <<>>
    /\ (Len(resps) >= 1 /\ IsPage(resps[1]) /\ resps[1].batch = <<>>)
       => /\ Len(resps) = 1 /\ Len(reqs) = 1
          /\ FetchReturned
          /\ rows = <<>> /\ out = <<>>

C4_Witness ==
    /\ Len(resps) = 1 /\ IsPage(resps[1]) /\ lastBody = OtherDict
    /\ Len(reqs) = 1 /\ rows = <<>> /\ pc = "done" /\ exit = 0

----------------------------------------------------------------------------
(* C5: a configuration failure ends the run with exit code 1 before any      *)
(* request, a fetch failure with exit code 2, a successful run with exit     *)
(* code 0; a missing REFTAB_BASE_URL gives exit code 1 and the error line    *)
(* naming it, whatever the other inputs are.                                 *)

\* the value main finds under header k
Resolved(k, v) ==
    IF env.extra.t = "object" /\ k \in DOMAIN env.extra.obj
    THEN env.extra.obj[k] ELSE v

ConfigMissing ==
    \/ env.base_url = <<>>
    \/ Resolved(PK, env.public_key) = ""
    \/ Resolved(SK, env.secret_key) = ""

IsErrorLine(l) == l.kind = "error" /\ l.rows = <<>>

C5_ExitCodes ==
    /\ pc = "done" <=> exit # NoExit
    /\ pc = "done" => exit \in {0, 1, 2}
    /\ (pc # "start" /\ ConfigMissing) =>
          pc = "done" /\ exit = 1 /\ reqs = <<>>
    /\ FetchFailed => pc = "done" /\ exit = 2
    /\ (pc = "done" /\ FetchReturned /\ ~traceback) => exit = 0
    /\ (pc # "start" /\ env.base_url = <<>>) =>
          /\ exit = 1
          /\ stdout = <<ErrorLine("Missing REFTAB_BASE_URL", NoCode)>>

C5_Witness ==
    /\ FetchFailed /\ Last(resps).kind = "bad_body" /\ out # <<>>
    /\ pc = "done" /\ exit = 2

----------------------------------------------------------------------------
(* C6: every error of a run, an I/O error while writing the CSV included,    *)
(* ends it with exit code 2 and one error line on stdout; no exception       *)
(* leaves main.                                                              *)

C6_AllErrorsReported ==
    /\ ~traceback
    /\ (pc = "done" /\ reqs # <<>> /\ exit # 0) =>
          /\ exit = 2
          /\ Len(stdout) = 1 /\ IsErrorLine(stdout[1])

----------------------------------------------------------------------------
(* C7: when a request is answered with a 4xx status, main exits with code 2  *)
(* and the error message holds the status code of the response.              *)

C7_HttpErrorNamesStatus ==
    (resps # <<>> /\ Last(resps).status \in 400..499) =>
        /\ pc = "done" /\ exit = 2
        /\ Len(stdout) = 1 /\ IsErrorLine(stdout[1])
        /\ stdout[1].code = Last(resps).status

----------------------------------------------------------------------------
(* C8: configuration resolution fails with exit code 1 when the base URL is  *)
(* absent, or (REFTAB_HEADERS unset) when either of the two keys is empty;   *)
(* with the base URL and both keys set (REFTAB_HEADERS unset) the run        *)
(* proceeds to fetching.                                                     *)

ConfigFailed ==
    /\ pc = "done" /\ exit = 1 /\ reqs = <<>>
    /\ Len(stdout) = 1 /\ IsErrorLine(stdout[1])

Proceeded == pc \in {"fetch", "wait", "write", "print"} \/ reqs # <<>>

C8_BothKeysRequired ==
    pc # "start" =>
        /\ env.base_url = <<>> => ConfigFailed
        /\ (env.extra = ExtraUnset
            /\ (env.public_key = "" \/ env.secret_key = "")) => ConfigFailed
        /\ (env.base_url # <<>> /\ env.extra = ExtraUnset
            /\ env.public_key # "" /\ env.secret_key # "") => Proceeded

C8_Witness ==
    /\ env.base_url # <<>> /\ env.extra = ExtraUnset
    /\ env.public_key = "p" /\ env.secret_key = ""
    /\ ConfigFailed

\* C8 as written: the check fails only when both keys are empty, and one
\* non-empty key is enough to proceed to fetching
C8_OneKeySuffices ==
    pc # "start" =>
        /\ env.base_url = <<>> => ConfigFailed
        /\ (env.public_key = "" /\ env.secret_key = "") => ConfigFailed
        /\ (env.base_url # <<>> /\ env.extra = ExtraUnset
            /\ (env.public_key # "" \/ env.secret_key # "")) => Proceeded

----------------------------------------------------------------------------
(* C9: after a fetch failure nothing is written: write_csv is not called,    *)
(* the file at --out is untouched, no fetched record is printed, and the     *)
(* only output is the error line.                                            *)

C9_NoPartialResults ==
    FetchFailed =>
        /\ pc = "done"
        /\ file = Untouched
        /\ rows = <<>>
        /\ Len(stdout) = 1 /\ IsErrorLine(stdout[1])

C9_Witness ==
    /\ FetchFailed /\ Last(resps).kind = "http_error"
    /\ Len(out) >= 2
    /\ args.out = "o.csv" /\ args.stdout
    /\ file = Untouched /\ Len(stdout) = 1

----------------------------------------------------------------------------
(* C10: every terminated run has printed exactly one line to stdout (the     *)
(* result array, a summary or an error object) and exits with 0, 1 or 2.     *)

C10_OneLine ==
    pc = "done" =>
        /\ Len(stdout) = 1
        /\ stdout[1].kind \in {"rows", "summary", "error"}
        /\ exit \in {0, 1, 2}

----------------------------------------------------------------------------
(* C11: at every point of a run the accumulated list is the concatenation,   *)
(* in request order, of the batches of the successful responses received so  *)
(* far, each in the server's order: nothing is dropped, deduplicated or      *)
(* re-ordered, and a record served twice appears twice.                      *)

RECURSIVE SumLen(_)
SumLen(rs) == IF rs = <<>> THEN 0 ELSE Len(rs[1].batch) + SumLen(Tail(rs))

\* the index in resps of the response that served out[j]
RECURSIVE Origin(_, _)
Origin(j, i) ==
    IF j <= Len(resps[i].batch) THEN <<i, j>>
    ELSE Origin(j - Len(resps[i].batch), i + 1)

C11_OutIsConcatenation ==
    pc # "start" =>
        /\ Len(out) = SumLen(resps)
        /\ \A j \in 1..Len(out) :
              LET o == Origin(j, 1)
              IN  IsPage(resps[o[1]]) /\ out[j] = resps[o[1]].batch[o[2]]
        /\ FetchReturned => rows = out

C11_Witness ==
    /\ Len(resps) = 3
    /\ IsPage(resps[1]) /\ resps[1].batch = <<1, 2>>
    /\ resps[2].kind = "retry"
    /\ IsPage(resps[3]) /\ resps[3].batch = <<1>>
    /\ out = <<1, 2, 1>>

----------------------------------------------------------------------------
(* C12: get_paginated returns only after a successful response whose batch   *)
(* is empty or shorter than limit; it stops otherwise only by raising on a   *)
(* 4xx status or on a transport or decoding error; after a non-empty batch   *)
(* of at least limit records, or after a 5xx response, it stays in the loop  *)
(* and issues another request.                                               *)

LeftLoop == pc \in {"write", "print"} \/ (pc = "done" /\ reqs # <<>>)

C12_StopsOnlyOnShortPage ==
    /\ LeftLoop =>
          \/ /\ IsPage(Last(resps))
             /\ \/ Last(resps).batch = <<>>
                \/ Len(Last(resps).batch) < args.limit
             /\ rows = out
          \/ /\ FetchFailed
             /\ Last(resps).kind = "http_error" =>
                   Last(resps).status \in 400..499
             /\ exit = 2
    /\ (/\ resps # <<>>
        /\ \/ Last(resps).status >= 500
           \/ /\ IsPage(Last(resps)) /\ Last(resps).batch # <<>>
              /\ Len(Last(resps).batch) >= args.limit)
       => /\ InLoop
          /\ pc = "wait" <=> Len(reqs) = Len(resps) + 1

C12_Witness ==
    /\ Len(resps) = 2 /\ args.limit = 2
    /\ IsPage(resps[1]) /\ Len(resps[1].batch) = 2
    /\ IsPage(resps[2]) /\ Len(resps[2].batch) = 1
    /\ pc = "print" /\ Len(reqs) = 2

----------------------------------------------------------------------------
(* C13: after a successful fetch the CSV is written, before anything is      *)
(* printed, if and only if --out is given; with --stdout the array of all    *)
(* records is printed and no summary; otherwise the summary with the count   *)
(* of the records the pager returned, the --resource value and the --out     *)
(* path or the empty string.                                                 *)

C13_OutputsFollowFlags ==
    FetchReturned =>
        /\ pc = "write" => args.out # None /\ file = Untouched /\ stdout = <<>>
        /\ pc = "print" =>
              /\ stdout = <<>>
              /\ file.state = "written" <=> args.out # None
        /\ (pc = "done" /\ exit = 0) =>
              /\ file.state = "written" <=> args.out # None
              /\ file.state = "written" => file = write_csv(out)
              /\ Len(stdout) = 1
              /\ args.stdout =>
                    stdout[1].kind = "rows" /\ stdout[1].rows = out
              /\ ~args.stdout =>
                    /\ stdout[1].kind = "summary"
                    /\ stdout[1].count = Len(out)
                    /\ stdout[1].resource = args.resource
                    /\ stdout[1].out = IF args.out = None THEN "" ELSE args.out

C13_Witness ==
    /\ FetchReturned /\ pc = "done" /\ exit = 0
    /\ args.out = "o.csv" /\ ~args.stdout /\ args.resource = "locations"
    /\ Len(out) = 2 /\ stdout[1].count = 2
    /\ file.state = "written"

----------------------------------------------------------------------------
(* C14: the batch of a response body: a null or empty body gives the empty   *)
(* batch; a mapping with a `results` key gives that value, or the empty      *)
(* batch when it is null or empty; a sequence gives itself; any other body   *)
(* (a mapping without `results`, a scalar) gives the empty batch and ends    *)
(* the pagination without error.                                             *)

C14_Batch(b) ==
    CASE b \in {NullBody, EmptyDict, ListBody(<<>>)} -> <<>>
      [] b.t = "dict" /\ b.has /\ b.rt = "list" -> b.items
      [] b.t = "dict" /\ b.has /\ b.rt = "null" -> <<>>
      [] b.t = "list" -> b.items
      [] OTHER -> <<>>

C14_BatchOfBody ==
    (resps # <<>> /\ Last(resps).status \in 200..299
     /\ lastBody # InvalidBody /\ lastBody # ResultsNum) =>
        /\ IsPage(Last(resps))
        /\ Last(resps).batch = C14_Batch(lastBody)
        /\ lastBody \in {OtherDict, ScalarBody} =>
              /\ Last(resps).batch = <<>>
              /\ FetchReturned /\ ~FetchFailed
              /\ rows = out

C14_Witness ==
    /\ Len(resps) = 2
    /\ IsPage(resps[1]) /\ resps[1].batch # <<>>
    /\ lastBody = ScalarBody /\ IsPage(resps[2]) /\ resps[2].batch = <<>>
    /\ pc = "done" /\ exit = 0 /\ rows = resps[1].batch

----------------------------------------------------------------------------
(* C15: write_csv on a non-empty list writes a header that is the sorted     *)
(* union, without duplicates, of the keys of all records, then one row per   *)
(* record in list order, each column holding the record's value for the key  *)
(* or a blank when the record lacks it; rows [{a:1},{b:2}] give the header   *)
(* a,b and the rows `1,` and `,2`.  On an empty list it writes zero bytes.   *)

Blank == [t |-> "blank", of |-> 0]

C15_CsvLayout ==
    file.state = "written" =>
        /\ rows = <<>> => file.header = <<>> /\ file.lines = <<>>
        /\ rows # <<>> =>
              /\ \A j \in 1..Len(file.header) - 1 :
                    file.header[j] < file.header[j + 1]
              /\ {file.header[j] : j \in 1..Len(file.header)}
                    = UNION {KeysOf(rows[i]) : i \in 1..Len(rows)}
              /\ Len(file.lines) = Len(rows)
              /\ \A i \in 1..Len(rows) :
                    /\ Len(file.lines[i]) = Len(file.header)
                    /\ \A j \in 1..Len(file.header) :
                          IF file.header[j] \in KeysOf(rows[i])
                          THEN /\ file.lines[i][j].t # "blank"
                               /\ file.lines[i][j].of = rows[i]
                          ELSE file.lines[i][j] = Blank
        /\ rows = <<1, 2>> =>
              /\ file.header = <<1, 2>>
              /\ file.lines = << <<[t |-> "value", of |-> 1], Blank>>,
                                 <<Blank, [t |-> "value", of |-> 2]>> >>

C15_Witness ==
    /\ file.state = "written" /\ rows = <<1, 2>>
    /\ file.header = <<1, 2>> /\ Len(file.lines) = 2
    /\ pc = "done"

----------------------------------------------------------------------------
(* C16: build_headers gives X-Public-Key and X-Secret-Key from the           *)
(* environment overlaid with the entries of REFTAB_HEADERS when it is a JSON *)
(* object: a colliding entry replaces the required header and main's         *)
(* credential check applies to the replaced value.  When REFTAB_HEADERS is   *)
(* unset or does not parse, the mapping is the two required headers and no   *)
(* error is reported for it.                                                 *)

KeysSet == env.public_key # "" /\ env.secret_key # ""

C16_HeaderOverlay ==
    (pc # "start" /\ env.base_url # <<>>) =>
        /\ env.extra.t = "object" =>
              /\ DOMAIN headers = {PK, SK} \cup DOMAIN env.extra.obj
              /\ \A k \in DOMAIN env.extra.obj : headers[k] = env.extra.obj[k]
              /\ PK \notin DOMAIN env.extra.obj => headers[PK] = env.public_key
              /\ SK \notin DOMAIN env.extra.obj => headers[SK] = env.secret_key
        /\ env.extra.t # "object" =>
              /\ DOMAIN headers = {PK, SK}
              /\ headers[PK] = env.public_key /\ headers[SK] = env.secret_key
              /\ KeysSet => Proceeded
        /\ ConfigFailed <=> (headers[PK] = "" \/ headers[SK] = "")

C16_Witness ==
    /\ env.extra = ExtraObject([k \in {PK} |-> "p2"])
    /\ env.public_key = "" /\ env.secret_key = "s"
    /\ reqs # <<>> /\ reqs[1].headers = headers
    /\ headers[PK] = "p2" /\ headers[SK] = "s"

----------------------------------------------------------------------------
(* C17: the pager sleeps once, when sleep > 0, after each successful full    *)
(* page and before the next request; never before the first request nor      *)
(* after the final (empty or short) page; once, for the configured duration, *)
(* after each 5xx response before the retry.  At most one request is         *)
(* outstanding at any time.                                                  *)

\* the sleeps that the responses i.. call for; a sleep after request i is
\* taken before request i + 1
RECURSIVE C17_Sleeps(_)
C17_Sleeps(i) ==
    IF i > Len(resps) THEN <<>>
    ELSE LET r == resps[i]
             here ==
                 IF r.status >= 500
                 THEN <<[after |-> i, kind |-> "retry", dur |-> args.sleep]>>
                 ELSE IF /\ IsPage(r) /\ r.batch # <<>>
                         /\ Len(r.batch) >= args.limit /\ args.sleep > 0
                 THEN <<[after |-> i, kind |-> "page", dur |-> args.sleep]>>
                 ELSE <<>>
         IN  here \o C17_Sleeps(i + 1)

C17_SleepPlacement ==
    /\ sleeps = C17_Sleeps(1)
    /\ Len(reqs) - Len(resps) \in {0, 1}
    /\ pc = "wait" <=> Len(reqs) = Len(resps) + 1
    /\ \A k \in 1..Len(sleeps) : pc = "wait" => sleeps[k].after < Len(reqs)

C17_Witness ==
    /\ args.sleep = 1 /\ args.limit = 1
    /\ Len(resps) = 3
    /\ resps[1].status = 503
    /\ IsPage(resps[2]) /\ Len(resps[2].batch) = 1
    /\ IsPage(resps[3]) /\ resps[3].batch = <<>>
    /\ sleeps = <<[after |-> 1, kind |-> "retry", dur |-> 1],
                  [after |-> 2, kind |-> "page", dur |-> 1]>>
    /\ pc = "done"

----------------------------------------------------------------------------
(* C18: all requests of a run differ only in offset: each goes to the base   *)
(* URL joined by exactly one slash with `assets` or `locations` according to *)
(* --resource, with the same headers, the same limit and the same q, which   *)
(* is present if and only if --query is a non-empty string; the caller's     *)
(* params mapping is not changed by the pager.                               *)

C18_Query == IF args.query = None \/ args.query = "" THEN None ELSE args.query

C18_RequestsDifferInOffset ==
    /\ \A i \in 1..Len(reqs) :
          /\ reqs[i].url = <<"h", "/", args.resource>>
          /\ reqs[i].headers = headers
          /\ reqs[i].limit = args.limit
          /\ reqs[i].q = C18_Query
          /\ \A j \in 1..Len(reqs) :
                [reqs[i] EXCEPT !.offset = 0] = [reqs[j] EXCEPT !.offset = 0]
    /\ (pc # "start" /\ pc # "done") \/ reqs # <<>> =>
          /\ DOMAIN params = (IF C18_Query = None THEN {} ELSE {"q"})
          /\ \A k \in DOMAIN params : params[k] = args.query

C18_Witness ==
    /\ env.base_url = <<"h", "/", "/">>
    /\ args.resource = "locations" /\ args.query = ""
    /\ Len(reqs) = 3 /\ reqs[3].offset = 4 /\ reqs[2].offset = 2
    /\ reqs[3].url = <<"h", "/", "locations">> /\ reqs[3].q = None

----------------------------------------------------------------------------
(* C19: for limit >= 1, against a server that holds N records, serves the    *)
(* slice [offset, offset+limit) and answers 5xx finitely often,              *)
(* get_paginated eventually returns exactly the N records in order after     *)
(* floor(N/limit)+1 successful responses; the offset of every request is     *)
(* limit times the number of batches appended before it, a multiple of limit *)
(* that never decreases.                                                     *)

\* the batches appended by the first n responses
Appended(n) ==
    Cardinality({k \in 1..n : IsPage(resps[k]) /\ resps[k].batch # <<>>})

C19_Progress ==
    /\ \A i \in 1..Len(reqs) :
          /\ reqs[i].offset = args.limit * Appended(i - 1)
          /\ i > 1 => reqs[i].offset >= reqs[i - 1].offset
    /\ InLoop => offset = args.limit * Appended(Len(resps))
    /\ FetchReturned =>
          /\ rows = dataset
          /\ Cardinality({k \in 1..Len(resps) : IsPage(resps[k])})
                = (Len(dataset) \div args.limit) + 1

C19_SliceTerminates == []C19_Progress /\ <>(FetchReturned /\ pc = "done")

C19_Witness ==
    /\ dataset = <<1, 2, 3, 4>> /\ args.limit = 2
    /\ Len(resps) = 5 /\ Retries = 2
    /\ FetchReturned /\ rows = <<1, 2, 3, 4>>
    /\ Offsets = <<0, 2, 2, 2, 4>>

----------------------------------------------------------------------------
(* C20: --limit is not validated; with limit = 0 the short-page test never   *)
(* fires: every non-empty batch is appended and followed by another request  *)
(* at the unchanged offset 0, the pager stops only on an empty batch or an   *)
(* error, and while the server keeps returning a non-empty page the run does *)
(* not end and the list grows with repeated records.                         *)

NonEmptyPages ==
    {k \in 1..Len(resps) : IsPage(resps[k]) /\ resps[k].batch # <<>>}

C20_LimitZero ==
    (args.limit = 0 /\ pc # "start") =>
        /\ offset = 0
        /\ \A i \in 1..Len(reqs) : reqs[i].offset = 0 /\ reqs[i].limit = 0
        /\ out = ConcatBatches(resps)
        /\ Len(out) >= Cardinality(NonEmptyPages)
        /\ (resps # <<>> /\ Len(resps) \in NonEmptyPages) =>
              InLoop /\ exit = NoExit
        /\ FetchReturned => Last(resps).batch = <<>> /\ rows = out
        /\ LeftLoop => FetchReturned \/ FetchFailed
        /\ (resps # <<>> /\ IsPage(Last(resps)) /\ Last(resps).batch = <<>>)
              => FetchReturned

C20_Witness ==
    /\ args.limit = 0
    /\ Len(resps) = 3 /\ NonEmptyPages = {1, 2, 3}
    /\ Offsets = <<0, 0, 0>>
    /\ pc = "fetch" /\ exit = NoExit
    /\ Len(out) >= 3 /\ out[1] = out[Len(resps[1].batch) + 1]

====
